---- MODULE Spec2Model ----
(***************************************************************************)
(* Authoritative tank-arena game server (src/unnamed/part_000, the variant *)
(* with an independent turret; src/server.js is the older variant of the  *)
(* same loop).                                                             *)
(*                                                                         *)
(* Numbers.  The server computes in IEEE doubles; the model computes in    *)
(* integers: positions in world units, velocities in units per second,     *)
(* times in milliseconds, angles in degrees (pi = 180), cosines and sines  *)
(* in thousandths.  Every product is divided with truncation toward zero   *)
(* (Div).  One handler runs at one clock value: the clock (Date.now())     *)
(* advances only between handlers, and never backwards; the tick timer     *)
(* fires at most once per clock value.                                     *)
(***************************************************************************)
EXTENDS Integers, Sequences, FiniteSets, TLC

VARIABLES now, lastTick, order, players, bullets, lastRepairTime,
          bulletIdCounter, conn, out, mid, last, events

vars == <<now, lastTick, order, players, bullets, lastRepairTime,
          bulletIdCounter, conn, out, mid, last, events>>

(***************************************************************************)
(* GAME_CONFIG and the other constants of the server.                      *)
(***************************************************************************)
ARENA_WIDTH == 1200
ARENA_HEIGHT == 700
TANK_RADIUS == 15
BULLET_RADIUS == 5
BULLET_SPEED == 800
BULLET_DAMAGE == 25
MAX_HEALTH == 100
TANK_SPEED == 250
\* TANK_BOOST_MULTIPLIER is 1.8: kept as a fraction in tenths
TANK_BOOST_MULTIPLIER_TENTHS == 18
TURRET_TURN_SPEED == 10
RESPAWN_TIME == 3000
BULLET_LIFETIME == 2000
REPAIR_AMOUNT == 10
REPAIR_COOLDOWN == 5000
\* SMOOTHING_FACTOR is 0.2: kept in tenths
SMOOTHING_FACTOR_TENTHS == 2
MAX_BULLETS == 50
TANK_TURRET_OFFSET == 25
SHOOT_COOLDOWN == 300
KILL_SCORE == 100
\* the margin of the safe spawn band, and of the projectiles' extended bounds
SPAWN_MARGIN == 100
BULLET_MARGIN == 100
\* Math.min(deltaTime, 0.1), in milliseconds
MAX_DELTA_MS == 100

(***************************************************************************)
(* Bounds of the model.                                                    *)
(***************************************************************************)
\* the clock value of the initial states (stands for a Date.now() far from 0)
StartTime == 20000
\* the clock stops advancing here
MaxTime == 20300
\* the connections send at most this many events, broadcasts included
MaxEvents == 2

\* connections are named in the order in which they connect
Ids == <<"a", "b", "c">>

IdSet == {Ids[i] : i \in 1..Len(Ids)}

\* the amounts by which the clock advances between two handlers (ms)
ClockSteps == {300}

\* the time between two ticks when nothing stalls: 1000 / TICK_RATE, in ms
TickInterval == 8

\* Math.random() in thousandths, as pairs (draw for x, draw for y)
SpawnDraws == {<<899, 0>>, <<999, 20>>}

\* move{dx, dy, boost} payloads
Moves == { [dx |-> 0, dy |-> 0, boost |-> FALSE],
           [dx |-> 1, dy |-> 0, boost |-> TRUE] }

\* aim{x, y} payloads (world coordinates of the pointer)
AimPoints == { [x |-> 1104, y |-> 600] }

(***************************************************************************)
(* Arithmetic of the fixed-point model.                                    *)
(***************************************************************************)
Abs(a) == IF a < 0 THEN -a ELSE a

Min(a, b) == IF a <= b THEN a ELSE b

\* division truncating toward zero
Div(a, b) == IF a >= 0 THEN a \div b ELSE -((-a) \div b)

\* JavaScript's remainder: the result has the sign of the dividend
JsRem(a, b) == IF a >= 0 THEN a % b ELSE -((-a) % b)

\* floor of the square root of n < 46340^2, by bisection: lo^2 <= n < hi^2
RECURSIVE IsqrtBetween(_, _, _)
IsqrtBetween(n, lo, hi) ==
    IF hi - lo <= 1 THEN lo
    ELSE LET m == (lo + hi) \div 2
         IN  IF m * m <= n THEN IsqrtBetween(n, m, hi) ELSE IsqrtBetween(n, lo, m)

Isqrt(n) == IsqrtBetween(n, 0, 46340)

\* sin of an angle in 0..180 degrees, in thousandths (Bhaskara's formula,
\* exact at 0, 30, 90, 150 and 180 degrees)
SinHalfTurn(m) == (4000 * m * (180 - m)) \div (40500 - m * (180 - m))

\* Math.sin and Math.cos of an angle in degrees, in thousandths
Sin1000(deg) ==
    LET m == deg % 360
    IN  IF m <= 180 THEN SinHalfTurn(m) ELSE -SinHalfTurn(m - 180)

Cos1000(deg) == Sin1000(deg + 90)

\* atan(a / b) in degrees for 0 <= a <= b, b > 0
AtanUnit(a, b) == (45 * a * b + 16 * a * (b - a)) \div (b * b)

\* Math.atan2(dy, dx) in degrees, in (-180, 180]
Atan2(dy, dx) ==
    LET a == Abs(dy)
        b == Abs(dx)
        t == IF a = 0 /\ b = 0 THEN 0
             ELSE IF a <= b THEN AtanUnit(a, b) ELSE 90 - AtanUnit(b, a)
    IN  IF dx >= 0 THEN (IF dy >= 0 THEN t ELSE -t)
        ELSE (IF dy >= 0 THEN 180 - t ELSE t - 180)

\* Math.pow(FRICTION, deltaTime) in hundred-thousandths, deltaTime = dt ms:
\* 0.92^(dt/1000) = 1 - 0.08338 * dt/1000 up to 4e-6 for dt <= 100
FrictionPow(dt) == 100000 - Div(8338 * dt, 1000)


(***************************************************************************)
(* class Player                                                            *)
(***************************************************************************)
ZeroInput == [dx |-> 0, dy |-> 0, boost |-> FALSE, mouseX |-> 0, mouseY |-> 0]

\* new Player(id, x, y)
NewPlayer(x, y) ==
    [x |-> x, y |-> y, vx |-> 0, vy |-> 0,
     angle |-> 0, targetAngle |-> 0, turretAngle |-> 0, targetTurretAngle |-> 0,
     hp |-> MAX_HEALTH, score |-> 0, isAlive |-> TRUE,
     respawnTime |-> 0, lastShot |-> 0, inputState |-> ZeroInput]

\* Math.random() * (ARENA_WIDTH - 200) + 100, the draw r in thousandths
SpawnX(r) == Div(r * (ARENA_WIDTH - 2 * SPAWN_MARGIN), 1000) + SPAWN_MARGIN

SpawnY(r) == Div(r * (ARENA_HEIGHT - 2 * SPAWN_MARGIN), 1000) + SPAWN_MARGIN

\* angleDiff = ((angleDiff + Math.PI) % (2 * Math.PI)) - Math.PI
NormalizeDiff(d) == JsRem(d + 180, 360) - 180

\* an applyInput that stops a tank whose input has no direction
ApplyInputStops(p) ==
    IF ~p.isAlive THEN p
    ELSE
    LET inp == p.inputState
        speed == IF inp.boost THEN Div(TANK_SPEED * TANK_BOOST_MULTIPLIER_TENTHS, 10)
                 ELSE TANK_SPEED
        moving == inp.dx # 0 \/ inp.dy # 0
        mag == Isqrt(1000000 * (inp.dx * inp.dx + inp.dy * inp.dy))
        vx1 == IF moving THEN Div(inp.dx * speed * 1000, mag) ELSE 0
        vy1 == IF moving THEN Div(inp.dy * speed * 1000, mag) ELSE 0
        ta1 == IF moving THEN Atan2(vy1, vx1) ELSE p.targetAngle
        tt1 == IF inp.mouseX # 0 \/ inp.mouseY # 0
               THEN Atan2(inp.mouseY - p.y, inp.mouseX - p.x)
               ELSE p.targetTurretAngle
    IN  [p EXCEPT !.vx = vx1, !.vy = vy1, !.targetAngle = ta1,
                  !.targetTurretAngle = tt1]

\* Player.applyInput
ApplyInput(p) ==
    IF ~p.isAlive THEN p
    ELSE
    LET inp == p.inputState
        speed == IF inp.boost THEN Div(TANK_SPEED * TANK_BOOST_MULTIPLIER_TENTHS, 10)
                 ELSE TANK_SPEED
        moving == inp.dx # 0 \/ inp.dy # 0
        \* magnitude in thousandths
        mag == Isqrt(1000000 * (inp.dx * inp.dx + inp.dy * inp.dy))
        vx1 == IF moving THEN Div(inp.dx * speed * 1000, mag) ELSE p.vx
        vy1 == IF moving THEN Div(inp.dy * speed * 1000, mag) ELSE p.vy
        ta1 == IF moving THEN Atan2(vy1, vx1) ELSE p.targetAngle
        tt1 == IF inp.mouseX # 0 \/ inp.mouseY # 0
               THEN Atan2(inp.mouseY - p.y, inp.mouseX - p.x)
               ELSE p.targetTurretAngle
    IN  [p EXCEPT !.vx = vx1, !.vy = vy1, !.targetAngle = ta1,
                  !.targetTurretAngle = tt1]

\* a respawn that forgets to clear the input buffer
RespawnKeepsInput(p, draw) ==
    [p EXCEPT !.isAlive = TRUE, !.hp = MAX_HEALTH,
              !.x = SpawnX(draw[1]), !.y = SpawnY(draw[2]),
              !.vx = 0, !.vy = 0,
              !.angle = 0, !.targetAngle = 0,
              !.turretAngle = 0, !.targetTurretAngle = 0]

\* a respawn that starts the score again
RespawnResetsScore(p, draw) ==
    [p EXCEPT !.isAlive = TRUE, !.hp = MAX_HEALTH,
              !.x = SpawnX(draw[1]), !.y = SpawnY(draw[2]),
              !.vx = 0, !.vy = 0,
              !.angle = 0, !.targetAngle = 0,
              !.turretAngle = 0, !.targetTurretAngle = 0,
              !.inputState = ZeroInput, !.score = 0]

\* a respawn that only postpones the deadline
RespawnPostponed(p, draw) == [p EXCEPT !.respawnTime = @ + RESPAWN_TIME]

\* a respawn that leaves the health at the 0 of the death
RespawnUnhealed(p, draw) ==
    [p EXCEPT !.isAlive = TRUE,
              !.x = SpawnX(draw[1]), !.y = SpawnY(draw[2]),
              !.vx = 0, !.vy = 0,
              !.angle = 0, !.targetAngle = 0,
              !.turretAngle = 0, !.targetTurretAngle = 0,
              !.inputState = ZeroInput]

\* Player.respawn, with Math.random() drawn as draw = <<rx, ry>>
Respawn(p, draw) ==
    [p EXCEPT !.isAlive = TRUE, !.hp = MAX_HEALTH,
              !.x = SpawnX(draw[1]), !.y = SpawnY(draw[2]),
              !.vx = 0, !.vy = 0,
              !.angle = 0, !.targetAngle = 0,
              !.turretAngle = 0, !.targetTurretAngle = 0,
              !.inputState = ZeroInput]

\* a respawn test that admits the deadline itself
RespawnDueAtDeadline(p, t) == t >= p.respawnTime

\* the respawn test of Player.update: now > this.respawnTime
RespawnDue(p, t) == t > p.respawnTime

\* the boundary bounce of Player.update on one axis: <<position, velocity>>
Bounce(pos, vel, hi) ==
    IF pos < TANK_RADIUS THEN <<TANK_RADIUS, Div(Abs(vel), 2)>>
    ELSE IF pos > hi - TANK_RADIUS THEN <<hi - TANK_RADIUS, -Div(Abs(vel), 2)>>
    ELSE <<pos, vel>>

\* the physics of Player.update for an alive tank, deltaTime = dt ms
Physics(p0, dt) ==
    LET p == ApplyInput(p0)
        vx1 == Div(p.vx * FrictionPow(dt), 100000)
        vy1 == Div(p.vy * FrictionPow(dt), 100000)
        x1 == p.x + Div(vx1 * dt, 1000)
        y1 == p.y + Div(vy1 * dt, 1000)
        angleDiff == NormalizeDiff(p.targetAngle - p.angle)
        angle1 == p.angle + Div(angleDiff * SMOOTHING_FACTOR_TENTHS, 10)
        turretDiff == NormalizeDiff(p.targetTurretAngle - p.turretAngle)
        turret1 == p.turretAngle + Div(turretDiff * TURRET_TURN_SPEED * dt, 1000)
        bx == Bounce(x1, vx1, ARENA_WIDTH)
        by == Bounce(y1, vy1, ARENA_HEIGHT)
    IN  [p EXCEPT !.x = bx[1], !.vx = bx[2], !.y = by[1], !.vy = by[2],
                  !.angle = angle1, !.turretAngle = turret1]

\* Player.update at clock t; draw is used only by a respawn
Update(p, dt, t, draw) ==
    IF ~p.isAlive
    THEN IF RespawnDue(p, t) THEN Respawn(p, draw) ELSE p
    ELSE Physics(p, dt)

\* guards of shoot that refuse a shot at the very end of the cooldown
ShootOkAfterCooldown(p, t) == p.isAlive /\ t - p.lastShot > SHOOT_COOLDOWN

\* guards of shoot without the cooldown
ShootOkNoCooldown(p, t) == p.isAlive

\* the guards of Player.shoot
ShootOk(p, t) == p.isAlive /\ ~(t - p.lastShot < SHOOT_COOLDOWN)

\* a counter that does not advance
NextBulletIdStuck(c) == c

\* bulletIdCounter++ : the counter after a projectile took the id c
NextBulletId(c) == c + 1

\* the projectile Player.shoot returns (new Bullet(data) stamps createdAt)
NewBullet(p, id, bid, t) ==
    [id |-> bid,
     x |-> p.x + Div(Cos1000(p.turretAngle) * TANK_TURRET_OFFSET, 1000),
     y |-> p.y + Div(Sin1000(p.turretAngle) * TANK_TURRET_OFFSET, 1000),
     vx |-> Div(Cos1000(p.turretAngle) * BULLET_SPEED, 1000),
     vy |-> Div(Sin1000(p.turretAngle) * BULLET_SPEED, 1000),
     owner |-> id, createdAt |-> t, angle |-> p.turretAngle]

\* a death that keeps the health the last hit left
DieKeepsHealth(p, t) ==
    [p EXCEPT !.isAlive = FALSE, !.respawnTime = t + RESPAWN_TIME,
              !.vx = 0, !.vy = 0]

\* Player.die at clock t
Die(p, t) ==
    [p EXCEPT !.isAlive = FALSE, !.hp = 0, !.respawnTime = t + RESPAWN_TIME,
              !.vx = 0, !.vy = 0]

\* the lethality test of Player.takeDamage
Lethal(hp) == hp <= 0

\* a takeDamage that notifies the attacker of a kill whether or not it is
\* still in the world
TakeDamageNotesAbsent(ps, id, damage, attackerId, t) ==
    IF ~ps[id].isAlive THEN [ps |-> ps, died |-> FALSE, ev |-> <<>>]
    ELSE
    LET hp1 == ps[id].hp - damage
    IN  IF Lethal(hp1)
        THEN LET dead == [ps EXCEPT ![id] = Die(ps[id], t)]
                 credited == attackerId \in DOMAIN ps
             IN  [ps |-> IF credited
                         THEN [dead EXCEPT ![attackerId].score = @ + KILL_SCORE]
                         ELSE dead,
                  died |-> TRUE,
                  ev |-> <<[ev |-> "died", to |-> id],
                           [ev |-> "kill", to |-> attackerId, victim |-> id]>>]
        ELSE [ps |-> [ps EXCEPT ![id].hp = hp1], died |-> FALSE, ev |-> <<>>]

\* Player.takeDamage on players[id]: the players, whether it died, the emits
TakeDamage(ps, id, damage, attackerId, t) ==
    IF ~ps[id].isAlive THEN [ps |-> ps, died |-> FALSE, ev |-> <<>>]
    ELSE
    LET hp1 == ps[id].hp - damage
    IN  IF Lethal(hp1)
        THEN LET dead == [ps EXCEPT ![id] = Die(ps[id], t)]
                 credited == attackerId \in DOMAIN ps
             IN  [ps |-> IF credited
                         THEN [dead EXCEPT ![attackerId].score = @ + KILL_SCORE]
                         ELSE dead,
                  died |-> TRUE,
                  ev |-> <<[ev |-> "died", to |-> id]>> \o
                         (IF credited
                          THEN <<[ev |-> "kill", to |-> attackerId, victim |-> id]>>
                          ELSE <<>>)]
        ELSE [ps |-> [ps EXCEPT ![id].hp = hp1], died |-> FALSE, ev |-> <<>>]

\* guards of repair without the cooldown
RepairOkNoCooldown(p, id, lrt, t) == p.isAlive

\* the guards of Player.repair, lrt the lastRepairTime table
RepairOk(p, id, lrt, t) ==
    /\ p.isAlive
    /\ ~(id \in DOMAIN lrt /\ lrt[id] # 0 /\ t - lrt[id] < REPAIR_COOLDOWN)

\* a repair without the cap at MAX_HEALTH
RepairedUncapped(hp) == hp + REPAIR_AMOUNT

\* the health Player.repair sets
Repaired(hp) == Min(MAX_HEALTH, hp + REPAIR_AMOUNT)

\* Player.toJSON
PlayerJSON(id, p) ==
    [id |-> id, x |-> p.x, y |-> p.y, angle |-> p.angle,
     turretAngle |-> p.turretAngle, hp |-> p.hp, score |-> p.score,
     name |-> <<"Player_", id>>, isAlive |-> p.isAlive, vx |-> p.vx, vy |-> p.vy]

(***************************************************************************)
(* class Bullet                                                            *)
(***************************************************************************)
\* an expiry test without the lifetime
BulletExpiredByBounds(b, t) ==
    \/ b.x < -BULLET_MARGIN \/ b.x > ARENA_WIDTH + BULLET_MARGIN
    \/ b.y < -BULLET_MARGIN \/ b.y > ARENA_HEIGHT + BULLET_MARGIN

\* the expiry test of Bullet.update on the moved projectile
BulletExpired(b, t) ==
    \/ b.x < -BULLET_MARGIN \/ b.x > ARENA_WIDTH + BULLET_MARGIN
    \/ b.y < -BULLET_MARGIN \/ b.y > ARENA_HEIGHT + BULLET_MARGIN
    \/ t - b.createdAt > BULLET_LIFETIME

\* an integration step that also applies the friction of the tanks
BulletMoveWithDrag(b, dt) ==
    [b EXCEPT !.x = @ + Div(b.vx * dt, 1000), !.y = @ + Div(b.vy * dt, 1000),
              !.vx = Div(@ * FrictionPow(dt), 100000),
              !.vy = Div(@ * FrictionPow(dt), 100000)]

\* an integration step over no more than the time since the projectile
\* was created
BulletMoveSinceCreated(b, dt) ==
    LET age == IF now - b.createdAt < dt THEN now - b.createdAt ELSE dt
    IN  [b EXCEPT !.x = @ + Div(b.vx * age, 1000), !.y = @ + Div(b.vy * age, 1000)]

\* the integration step of Bullet.update
BulletMove(b, dt) ==
    [b EXCEPT !.x = @ + Div(b.vx * dt, 1000), !.y = @ + Div(b.vy * dt, 1000)]

\* Bullet.toJSON
BulletJSON(b) ==
    [id |-> b.id, x |-> b.x, y |-> b.y, vx |-> b.vx, vy |-> b.vy,
     angle |-> b.angle, owner |-> b.owner]

(***************************************************************************)
(* The world: players (an object, iterated in insertion order: order),      *)
(* bullets (a Map, iterated in insertion order: a sequence), lastRepairTime *)
(* and bulletIdCounter.  conn is each connection's state.  out holds the    *)
(* events the last handler emitted; mid holds the players as they were      *)
(* right after the update pass of the last tick (empty after other          *)
(* handlers); last names the last handler and its connection.  In a "hit"   *)
(* event the fields bullet, bx and by (the projectile and its place at      *)
(* impact) are not on the wire.  events counts the inbound events and the   *)
(* broadcasts.                                                              *)
(***************************************************************************)
NoPlayers == [i \in {} |-> 0]

\* a delete that removes nothing
NothingDeleted(f, S) == f

\* the restriction of function f to the keys in S
Restrict(f, S) == [k \in S |-> f[k]]

\* sequence q without the entries equal to e
RECURSIVE Without(_, _)
Without(q, e) ==
    IF q = <<>> THEN <<>>
    ELSE IF Head(q) = e THEN Without(Tail(q), e)
    ELSE <<Head(q)>> \o Without(Tail(q), e)

\* sequence q without the entries whose id is in S
RECURSIVE DropIds(_, _)
DropIds(q, S) ==
    IF q = <<>> THEN <<>>
    ELSE IF Head(q).id \in S THEN DropIds(Tail(q), S)
    ELSE <<Head(q)>> \o DropIds(Tail(q), S)

\* the players and bullets as serialized by toJSON
PlayersJSON(ps, keys) == [k \in keys |-> PlayerJSON(k, ps[k])]

BulletsJSON(bs) == [i \in 1..Len(bs) |-> BulletJSON(bs[i])]

(***************************************************************************)
(* The initial states: the server as constructed (Fresh), and other games  *)
(* in progress, each a state the server reaches:                           *)
(*  Duel     a and b have just spawned at (1074,100) and (1104,100);       *)
(*  Wounded  as Duel, after a struck b three times, b repaired (4700 ms    *)
(*           ago) and a struck b once more (shot 300 ms ago): b is at 10   *)
(*           and has one kill from earlier;                                *)
(*  Fallen   as Duel with both tanks 80 to the left, after a struck b four *)
(*           times: b, with one kill from earlier, died RESPAWN_TIME ms    *)
(*           ago, its respawn deadline is the present clock value;         *)
(*  Chase    as Duel, after both held move{dx: 1, boost} until b reached   *)
(*           the right wall, a one tank diameter behind it;                *)
(*  Barrage  as Duel, with the 51 projectiles in flight that ten closed    *)
(*           connections fired: 49 at the last tick and two fired since;   *)
(*  Shove    a, holding move{dx: 1, boost}, fired from (1074,100) just     *)
(*           after b had spawned at (1072,100); the tick that followed     *)
(*           moved the projectile and then pushed the two tanks apart, a   *)
(*           towards its own projectile.                                   *)
(* In the games in progress the last tick ran TickInterval ms ago.         *)
(***************************************************************************)
Fresh ==
    [players |-> NoPlayers, order |-> <<>>, bullets |-> <<>>,
     lastRepairTime |-> NoPlayers,
     bulletIdCounter |-> 0, conn |-> [i \in IdSet |-> "new"],
     lastTick |-> StartTime]

DuelConn == [i \in IdSet |-> IF i \in {"a", "b"} THEN "open" ELSE "new"]

Duel ==
    [players |-> [i \in {"a", "b"} |->
                    IF i = "a" THEN NewPlayer(1074, 100) ELSE NewPlayer(1104, 100)],
     order |-> <<"a", "b">>, bullets |-> <<>>, lastRepairTime |-> NoPlayers,
     bulletIdCounter |-> 0, conn |-> DuelConn,
     lastTick |-> StartTime - TickInterval]

Wounded ==
    [Duel EXCEPT !.players["a"].lastShot = StartTime - SHOOT_COOLDOWN,
                 !.players["b"].hp = 10,
                 !.players["b"].score = KILL_SCORE,
                 !.lastRepairTime = [i \in {"b"} |-> StartTime - 4700],
                 !.bulletIdCounter = 4]

Fallen ==
    [Duel EXCEPT !.players["a"].x = 994,
                 !.players["a"].lastShot = StartTime - RESPAWN_TIME - TickInterval,
                 !.players["a"].score = KILL_SCORE,
                 !.players["b"] = Die([@ EXCEPT !.x = 1024, !.score = KILL_SCORE],
                                      StartTime - RESPAWN_TIME),
                 !.bulletIdCounter = 4]

Driving(p, x) ==
    [p EXCEPT !.x = x, !.vx = 449,
              !.inputState = [ZeroInput EXCEPT !.dx = 1, !.boost = TRUE]]

Chase ==
    [Duel EXCEPT !.players["a"] = Driving(@, 1155),
                 !.players["b"] = Driving(@, 1185)]

\* ten earlier connections, closed since: each stood on its own row, turret
\* at 0, and fired a volley every 350 ms (the ticks of that time stalled now
\* and then, a projectile made 200 units between two volleys)
Gone == <<"p0", "p1", "p2", "p3", "p4", "p5", "p6", "p7", "p8", "p9">>

\* the projectile of row j and volley k (k volleys ago; volley 0 was fired
\* after the last tick); the tank of row 9 stood 300 further to the right
Shell(bid, j, k) ==
    [id |-> bid,
     x |-> 100 + TANK_TURRET_OFFSET + 200 * k + (IF j = 9 THEN 300 ELSE 0),
     y |-> 200 + 40 * j,
     vx |-> BULLET_SPEED, vy |-> 0,
     owner |-> Gone[j + 1],
     createdAt |-> IF k = 0 THEN StartTime - 4 ELSE StartTime - 350 * k,
     angle |-> 0]

\* the projectiles in flight, oldest first: volley 5 of rows 0..8, volleys
\* 4..1 of rows 0..9, volley 0 of rows 8 and 9
Shells ==
    [i \in 1..51 |->
        IF i <= 9 THEN Shell(i - 1, i - 1, 5)
        ELSE IF i <= 49 THEN Shell(i - 1, (i - 10) % 10, 4 - ((i - 10) \div 10))
        ELSE Shell(i - 1, i - 42, 0)]

Barrage == [Duel EXCEPT !.bullets = Shells, !.bulletIdCounter = 51]

Shove ==
    [Duel EXCEPT !.players["a"] = [Driving(@, 1089) EXCEPT
                                      !.vx = 459, !.lastShot = StartTime - 17],
                 !.players["b"] = [@ EXCEPT !.x = 1060, !.vx = -10],
                 !.bullets = <<[NewBullet(NewPlayer(1074, 100), "a", 0,
                                          StartTime - 17)
                                EXCEPT !.x = 1105]>>,
                 !.bulletIdCounter = 1]

\* a tank that has driven with move{dx:-1, dy:1} until its body pointed
\* along its velocity, and whose client has just sent move{dx:-1, dy:-1}
Veering(p) ==
    LET q == ApplyInput([p EXCEPT !.inputState = [ZeroInput EXCEPT !.dx = -1, !.dy = 1]])
    IN  [q EXCEPT !.angle = q.targetAngle,
                  !.inputState = [ZeroInput EXCEPT !.dx = -1, !.dy = -1]]

Turn ==
    [Fresh EXCEPT !.players = [i \in {"a"} |-> Veering(NewPlayer(600, 400))],
                  !.order = <<"a">>,
                  !.conn = [i \in IdSet |-> IF i = "a" THEN "open" ELSE "new"],
                  !.lastTick = StartTime - TickInterval]

\* Wounded, 6 ms after a shot of a and 4 ms after a shot of p0, who stood
\* to the right of b with its turret at 180 degrees and has left since
Volley ==
    [Wounded EXCEPT
        !.players["a"].lastShot = StartTime - 6,
        !.bullets = <<NewBullet(NewPlayer(1074, 100), "a", 4, StartTime - 6),
                      NewBullet([NewPlayer(1154, 100) EXCEPT !.turretAngle = 180],
                                Gone[1], 5, StartTime - 4)>>,
        !.bulletIdCounter = 6]

Seeds == {Fresh, Wounded, Fallen, Chase, Barrage, Shove, Turn, Volley}

Init ==
    \E seed \in Seeds :
        /\ now = StartTime
        /\ lastTick = seed.lastTick
        /\ order = seed.order
        /\ players = seed.players
        /\ bullets = seed.bullets
        /\ lastRepairTime = seed.lastRepairTime
        /\ bulletIdCounter = seed.bulletIdCounter
        /\ conn = seed.conn
        /\ out = <<>>
        /\ mid = NoPlayers
        /\ last = [op |-> "start", id |-> "server"]
        /\ events = 0

(***************************************************************************)
(* The clock: Date.now() advances between handlers.                        *)
(***************************************************************************)
AdvanceClock(d) ==
    /\ now + d <= MaxTime
    /\ now' = now + d
    /\ out' = <<>>
    /\ mid' = NoPlayers
    /\ last' = [op |-> "clock", id |-> "server"]
    /\ UNCHANGED <<lastTick, order, players, bullets, lastRepairTime,
                   bulletIdCounter, conn, events>>

\* one more event from a connection, or one more broadcast
Event == events < MaxEvents /\ events' = events + 1

\* the connections before id, in the order of connection
Earlier(id) == {Ids[j] : j \in {j \in 1..Len(Ids) : \E i \in j + 1..Len(Ids) : Ids[i] = id}}

(***************************************************************************)
(* io.on("connection") and the socket's handlers.  A handler of a closed   *)
(* connection can still run (an event already queued at the disconnect).   *)
(***************************************************************************)
Join(id, draw) ==
    /\ Event
    /\ conn[id] = "new"
    /\ \A k \in Earlier(id) : conn[k] # "new"
    /\ conn' = [conn EXCEPT ![id] = "open"]
    /\ players' = [k \in DOMAIN players \cup {id} |->
                      IF k = id THEN NewPlayer(SpawnX(draw[1]), SpawnY(draw[2]))
                      ELSE players[k]]
    /\ order' = Append(order, id)
    /\ out' = << [ev |-> "init", to |-> id, myPlayerId |-> id],
                 [ev |-> "existingPlayers", to |-> id,
                  players |-> PlayersJSON(players, DOMAIN players),
                  bullets |-> BulletsJSON(bullets)],
                 [ev |-> "playerJoined", to |-> "others", playerId |-> id] >>
    /\ mid' = NoPlayers
    /\ last' = [op |-> "join", id |-> id]
    /\ UNCHANGED <<now, lastTick, bullets, lastRepairTime, bulletIdCounter>>

\* Player.setInputState: { ...this.inputState, ...input }
SetInputState(p, input) ==
    [p EXCEPT !.inputState =
        [f \in DOMAIN p.inputState |->
            IF f \in DOMAIN input THEN input[f] ELSE p.inputState[f]]]

\* socket.on("move")
Move(id, data) ==
    /\ Event
    /\ conn[id] # "new"
    /\ players' = IF id \in DOMAIN players
                  THEN [players EXCEPT ![id] = SetInputState(players[id], data)]
                  ELSE players
    /\ out' = <<>>
    /\ mid' = NoPlayers
    /\ last' = [op |-> "move", id |-> id]
    /\ UNCHANGED <<now, lastTick, order, bullets, lastRepairTime,
                   bulletIdCounter, conn>>

\* socket.on("aim")
Aim(id, data) ==
    /\ Event
    /\ conn[id] # "new"
    /\ players' = IF id \in DOMAIN players
                  THEN [players EXCEPT ![id] =
                          SetInputState(players[id],
                                        [mouseX |-> data.x, mouseY |-> data.y])]
                  ELSE players
    /\ out' = <<>>
    /\ mid' = NoPlayers
    /\ last' = [op |-> "aim", id |-> id]
    /\ UNCHANGED <<now, lastTick, order, bullets, lastRepairTime,
                   bulletIdCounter, conn>>

\* the aim a shoot event carries: none, or a pointer position
ShootData == {[none |-> TRUE]} \cup {[mouseX |-> a.x, mouseY |-> a.y] : a \in AimPoints}

\* data && data.mouseX && data.mouseY
HasAim(data) == "mouseX" \in DOMAIN data /\ data.mouseX # 0 /\ data.mouseY # 0

\* a shoot handler that takes the projectile id before the guards of shoot
ShootTakesIdFirst(id, data) ==
    /\ Event
    /\ conn[id] # "new"
    /\ IF id \in DOMAIN players
       THEN LET aimed == IF HasAim(data) THEN SetInputState(players[id], data)
                         ELSE players[id]
            IN  /\ bulletIdCounter' = NextBulletId(bulletIdCounter)
                /\ IF ShootOk(aimed, now)
                   THEN LET b == NewBullet(aimed, id, bulletIdCounter, now)
                        IN  /\ players' = [players EXCEPT
                                             ![id] = [aimed EXCEPT !.lastShot = now]]
                            /\ bullets' = Append(bullets, b)
                            /\ out' = <<[ev |-> "shootSound", to |-> "others",
                                         x |-> b.x, y |-> b.y, playerId |-> id]>>
                   ELSE /\ players' = [players EXCEPT ![id] = aimed]
                        /\ out' = <<>>
                        /\ UNCHANGED bullets
       ELSE /\ out' = <<>>
            /\ UNCHANGED <<players, bullets, bulletIdCounter>>
    /\ mid' = NoPlayers
    /\ last' = [op |-> "shoot", id |-> id]
    /\ UNCHANGED <<now, lastTick, order, lastRepairTime, conn>>

\* socket.on("shoot")
Shoot(id, data) ==
    /\ Event
    /\ conn[id] # "new"
    /\ IF id \in DOMAIN players
       THEN LET aimed == IF HasAim(data) THEN SetInputState(players[id], data)
                         ELSE players[id]
            IN  IF ShootOk(aimed, now)
                THEN LET b == NewBullet(aimed, id, bulletIdCounter, now)
                     IN  /\ players' = [players EXCEPT
                                          ![id] = [aimed EXCEPT !.lastShot = now]]
                         /\ bullets' = Append(bullets, b)
                         /\ bulletIdCounter' = NextBulletId(bulletIdCounter)
                         /\ out' = <<[ev |-> "shootSound", to |-> "others",
                                      x |-> b.x, y |-> b.y, playerId |-> id]>>
                ELSE /\ players' = [players EXCEPT ![id] = aimed]
                     /\ out' = <<>>
                     /\ UNCHANGED <<bullets, bulletIdCounter>>
       ELSE /\ out' = <<>>
            /\ UNCHANGED <<players, bullets, bulletIdCounter>>
    /\ mid' = NoPlayers
    /\ last' = [op |-> "shoot", id |-> id]
    /\ UNCHANGED <<now, lastTick, order, lastRepairTime, conn>>

\* a repair handler that notes the time of the request before it looks for
\* the tank
RepairNotesFirst(id) ==
    /\ Event
    /\ conn[id] # "new"
    /\ lastRepairTime' = [k \in DOMAIN lastRepairTime \cup {id} |->
                             IF k = id THEN now ELSE lastRepairTime[k]]
    /\ IF id \in DOMAIN players /\ RepairOk(players[id], id, lastRepairTime, now)
       THEN /\ players' = [players EXCEPT ![id].hp = Repaired(@)]
            /\ out' = <<[ev |-> "repaired", to |-> id,
                         hp |-> Repaired(players[id].hp)]>>
       ELSE /\ out' = <<>>
            /\ UNCHANGED players
    /\ mid' = NoPlayers
    /\ last' = [op |-> "repair", id |-> id]
    /\ UNCHANGED <<now, lastTick, order, bullets, bulletIdCounter, conn>>

\* socket.on("repair")
Repair(id) ==
    /\ Event
    /\ conn[id] # "new"
    /\ IF id \in DOMAIN players /\ RepairOk(players[id], id, lastRepairTime, now)
       THEN /\ lastRepairTime' = [k \in DOMAIN lastRepairTime \cup {id} |->
                                    IF k = id THEN now ELSE lastRepairTime[k]]
            /\ players' = [players EXCEPT ![id].hp = Repaired(@)]
            /\ out' = <<[ev |-> "repaired", to |-> id,
                         hp |-> Repaired(players[id].hp)]>>
       ELSE /\ out' = <<>>
            /\ UNCHANGED <<players, lastRepairTime>>
    /\ mid' = NoPlayers
    /\ last' = [op |-> "repair", id |-> id]
    /\ UNCHANGED <<now, lastTick, order, bullets, bulletIdCounter, conn>>

\* socket.on("disconnect")
Leave(id) ==
    /\ Event
    /\ conn[id] = "open"
    /\ conn' = [conn EXCEPT ![id] = "closed"]
    /\ players' = Restrict(players, DOMAIN players \ {id})
    /\ order' = Without(order, id)
    /\ lastRepairTime' = Restrict(lastRepairTime, DOMAIN lastRepairTime \ {id})
    /\ out' = <<[ev |-> "playerLeft", to |-> "all", playerId |-> id]>>
    /\ mid' = NoPlayers
    /\ last' = [op |-> "leave", id |-> id]
    /\ UNCHANGED <<now, lastTick, bullets, bulletIdCounter>>

(***************************************************************************)
(* gameTick                                                                *)
(***************************************************************************)
\* a delta time without the clamp
UnclampedDelta(t, prev) == t - prev

\* clampedDeltaTime in ms at clock t
ClampedDelta(t, prev) == Min(t - prev, MAX_DELTA_MS)

\* the dead players a tick at clock t respawns
Respawning(ps, t) == {k \in DOMAIN ps : ~ps[k].isAlive /\ RespawnDue(ps[k], t)}

\* Object.values(players).forEach(player => player.update(clampedDeltaTime))
UpdatePlayers(ps, dt, t, draws) ==
    [k \in DOMAIN ps |->
        Update(ps[k], dt, t, IF k \in DOMAIN draws THEN draws[k] ELSE <<0, 0>>)]

\* the events of the update pass
RespawnEvents(ps, t, keys) ==
    LET F[i \in 0..Len(keys)] ==
            IF i = 0 THEN <<>>
            ELSE IF keys[i] \in Respawning(ps, t)
                 THEN Append(F[i - 1], [ev |-> "respawned", to |-> keys[i]])
                 ELSE F[i - 1]
    IN  F[Len(keys)]

\* distanceSquared < collisionDistance * collisionDistance
InRange(b, p) ==
    LET dx == b.x - p.x
        dy == b.y - p.y
        collisionDistance == TANK_RADIUS + BULLET_RADIUS
    IN  dx * dx + dy * dy < collisionDistance * collisionDistance

\* an inner-loop test that does not skip the owner
HittableByOwner(b, k, p) == p.isAlive /\ InRange(b, p)

\* an inner-loop test that does not skip dead tanks
HittableAnyTank(b, k, p) == k # b.owner /\ InRange(b, p)

\* the test of the inner loop of the bullet pass
Hittable(b, k, p) == p.isAlive /\ k # b.owner /\ InRange(b, p)

\* the last player in the iteration order instead of the first
LastHit(b, ps, keys) ==
    LET S == {i \in 1..Len(keys) :
                 /\ ps[keys[i]].isAlive
                 /\ keys[i] # b.owner
                 /\ InRange(b, ps[keys[i]])}
    IN  IF S = {} THEN 0 ELSE CHOOSE i \in S : \A j \in S : i >= j

\* the first player, in the iteration order keys, the projectile b strikes
\* (0 when it strikes none)
FirstHit(b, ps, keys) ==
    LET S == {i \in 1..Len(keys) : Hittable(b, keys[i], ps[keys[i]])}
    IN  IF S = {} THEN 0 ELSE CHOOSE i \in S : \A j \in S : i <= j

\* the bullet pass over bs: players, projectiles moved, ids to remove, emits
RECURSIVE BulletPass(_, _, _, _, _)
BulletPass(bs, acc, keys, dt, t) ==
    IF bs = <<>> THEN acc
    ELSE
    LET b == BulletMove(Head(bs), dt)
        moved == Append(acc.moved, b)
    IN  IF BulletExpired(b, t)
        THEN BulletPass(Tail(bs),
                        [acc EXCEPT !.moved = moved, !.remove = @ \cup {b.id}],
                        keys, dt, t)
        ELSE
        LET i == FirstHit(b, acc.ps, keys)
        IN  IF i = 0
            THEN BulletPass(Tail(bs), [acc EXCEPT !.moved = moved], keys, dt, t)
            ELSE
            LET r == TakeDamage(acc.ps, keys[i], BULLET_DAMAGE, b.owner, t)
                hit == [ev |-> "hit", to |-> keys[i], damage |-> BULLET_DAMAGE,
                        attacker |-> b.owner,
                        bullet |-> b.id, bx |-> b.x, by |-> b.y]
                diedEv == IF r.died
                          THEN <<[ev |-> "playerDied", to |-> "all",
                                  playerId |-> keys[i], killerId |-> b.owner]>>
                          ELSE <<>>
            IN  BulletPass(Tail(bs),
                           [ps |-> r.ps, moved |-> moved,
                            remove |-> acc.remove \cup {b.id},
                            ev |-> acc.ev \o r.ev \o <<hit>> \o diedEv],
                           keys, dt, t)

\* the pairs (i, j), i < j, of 1..n in the order of the nested loops
PairSeq(n) ==
    LET P == {<<i, j>> \in (1..n) \X (1..n) : i < j}
        Rank(pr) == Cardinality({q \in P : q[1] < pr[1] \/ (q[1] = pr[1] /\ q[2] <= pr[2])})
    IN  [r \in 1..Cardinality(P) |-> CHOOSE pr \in P : Rank(pr) = r]

\* a separation that moves only the first tank of the pair, by the whole
\* penetration
SeparateFirstOnly(ps, k1, k2) ==
    LET p1 == ps[k1]
        p2 == ps[k2]
        dx == p1.x - p2.x
        dy == p1.y - p2.y
        distanceSquared == dx * dx + dy * dy
        minDistance == TANK_RADIUS * 2
        distance == Isqrt(distanceSquared * 1000000)
        gap == minDistance * 1000 - distance
    IN  IF distanceSquared < minDistance * minDistance /\ gap > 0 /\ distance > 0
        THEN [ps EXCEPT ![k1] = [p1 EXCEPT !.x = @ + Div(dx * gap, distance),
                                          !.y = @ + Div(dy * gap, distance),
                                          !.vx = @ + Div(dx * gap * 8, distance * 10),
                                          !.vy = @ + Div(dy * gap * 8, distance * 10)]]
        ELSE ps

\* the separation of one pair of alive tanks
Separate(ps, k1, k2) ==
    LET p1 == ps[k1]
        p2 == ps[k2]
        dx == p1.x - p2.x
        dy == p1.y - p2.y
        distanceSquared == dx * dx + dy * dy
        minDistance == TANK_RADIUS * 2
        \* distance, minDistance in thousandths
        distance == Isqrt(distanceSquared * 1000000)
        gap == minDistance * 1000 - distance
    IN  IF distanceSquared < minDistance * minDistance /\ gap > 0 /\ distance > 0
        THEN
        \* nx * overlap = (dx / distance) * (minDistance - distance) / 2
        LET mx == Div(dx * gap, 2 * distance)
            my == Div(dy * gap, 2 * distance)
            \* damping = 0.8
            ix == Div(dx * gap * 8, 2 * distance * 10)
            iy == Div(dy * gap * 8, 2 * distance * 10)
        IN  [ps EXCEPT ![k1] = [p1 EXCEPT !.x = @ + mx, !.y = @ + my,
                                          !.vx = @ + ix, !.vy = @ + iy],
                       ![k2] = [p2 EXCEPT !.x = @ - mx, !.y = @ - my,
                                          !.vx = @ - ix, !.vy = @ - iy]]
        ELSE ps

\* the sequence of the entries of keys that are alive in ps
RECURSIVE AliveKeys(_, _)
AliveKeys(ps, keys) ==
    IF keys = <<>> THEN <<>>
    ELSE IF ps[Head(keys)].isAlive
         THEN <<Head(keys)>> \o AliveKeys(ps, Tail(keys))
         ELSE AliveKeys(ps, Tail(keys))

\* the tank-to-tank pass
TankPass(ps, keys) ==
    LET arr == AliveKeys(ps, keys)
        prs == PairSeq(Len(arr))
        F[r \in 0..Len(prs)] ==
            IF r = 0 THEN ps
            ELSE Separate(F[r - 1], arr[prs[r][1]], arr[prs[r][2]])
    IN  F[Len(prs)]

\* a cap that evicts the newest projectiles
EvictsNewest(bs) ==
    LET n == Len(bs)
    IN  IF n > MAX_BULLETS
        THEN {bs[i].id : i \in MAX_BULLETS + 1..n}
        ELSE {}

\* the ids the cap evicts: the bullets.size - MAX_BULLETS oldest (stable sort)
Evicted(bs) ==
    LET n == Len(bs)
        Rank(i) == Cardinality({j \in 1..n :
                       \/ bs[j].createdAt < bs[i].createdAt
                       \/ (bs[j].createdAt = bs[i].createdAt /\ j <= i)})
    IN  IF n > MAX_BULLETS
        THEN {bs[i].id : i \in {i \in 1..n : Rank(i) <= n - MAX_BULLETS}}
        ELSE {}

\* gameTick at clock now; draws gives Math.random() to each respawn.  The
\* timer's period is TickInterval ms: it does not fire twice at one clock value
GameTick(draws) ==
    LET dt == ClampedDelta(now, lastTick)
        updated == UpdatePlayers(players, dt, now, draws)
        pass == BulletPass(bullets,
                           [ps |-> updated, moved |-> <<>>, remove |-> {},
                            ev |-> <<>>],
                           order, dt, now)
        kept == DropIds(pass.moved, pass.remove)
    IN  /\ now > lastTick
        /\ lastTick' = now
        /\ players' = TankPass(pass.ps, order)
        /\ bullets' = DropIds(kept, Evicted(kept))
        /\ out' = RespawnEvents(players, now, order) \o pass.ev
        /\ mid' = updated
        /\ last' = [op |-> "tick", id |-> "server"]
        /\ UNCHANGED <<now, order, lastRepairTime, bulletIdCounter, conn, events>>

\* a broadcast that takes the tick's time stamp for its own
SendUpdatesStampsTick ==
    /\ Event
    /\ lastTick' = now
    /\ out' = <<[ev |-> "state", to |-> "all",
                 players |-> PlayersJSON(players, DOMAIN players),
                 bullets |-> BulletsJSON(bullets),
                 timestamp |-> now]>>
    /\ mid' = NoPlayers
    /\ last' = [op |-> "broadcast", id |-> "server"]
    /\ UNCHANGED <<now, order, players, bullets, lastRepairTime,
                   bulletIdCounter, conn>>

\* sendUpdates
SendUpdates ==
    /\ Event
    /\ out' = <<[ev |-> "state", to |-> "all",
                 players |-> PlayersJSON(players, DOMAIN players),
                 bullets |-> BulletsJSON(bullets),
                 timestamp |-> now]>>
    /\ mid' = NoPlayers
    /\ last' = [op |-> "broadcast", id |-> "server"]
    /\ UNCHANGED <<now, lastTick, order, players, bullets, lastRepairTime,
                   bulletIdCounter, conn>>

\* the clock advances between two handlers
ClockStep == \E d \in ClockSteps : AdvanceClock(d)

\* setInterval(gameTick): one tick, Math.random() drawn for each respawn
TickStep == \E draws \in [Respawning(players, now) -> SpawnDraws] : GameTick(draws)

Next ==
    \/ ClockStep
    \/ \E id \in IdSet, draw \in SpawnDraws : Join(id, draw)
    \/ \E id \in IdSet, data \in Moves : Move(id, data)
    \/ \E id \in IdSet, data \in AimPoints : Aim(id, data)
    \/ \E id \in IdSet, data \in ShootData : Shoot(id, data)
    \/ \E id \in IdSet : Repair(id)
    \/ \E id \in IdSet : Leave(id)
    \/ TickStep
    \/ SendUpdates

Spec == Init /\ [][Next]_vars

\* a dead tank is past its respawn deadline
Due == \E k \in DOMAIN players : ~players[k].isAlive /\ now > players[k].respawnTime

\* a tick that has a respawn to do
Revive == Due /\ TickStep

(***************************************************************************)
(* The clock keeps advancing and the timer keeps firing: weak fairness of  *)
(* ClockStep and of Revive.  WF_vars(Revive) is written out, with Due for  *)
(* ENABLED <<Revive>>_vars (no tick has run yet at the clock value at      *)
(* which a tank is due, and the tick changes that tank).                   *)
(***************************************************************************)
FairSpec ==
    Spec /\ WF_vars(ClockStep) /\ ([]<>~Due \/ []<><<Revive>>_vars)

(***************************************************************************)
(* Properties.  They read the program's state and the three records of the *)
(* last handler (out, mid, last); none of them uses an operator of the     *)
(* handlers above.                                                         *)
(***************************************************************************)
\* the positions in out of the "hit" events on k
HitsOn(k) == {i \in 1..Len(out) : out[i].ev = "hit" /\ out[i].to = k}

\* the last handler emitted an event of this kind to k
Emitted(kind, k) == \E i \in 1..Len(out) : out[i].ev = kind /\ out[i].to = k

\* the point (x, y) is closer than TANK_RADIUS + BULLET_RADIUS to tank p
InReach(x, y, p) ==
    (x - p.x) * (x - p.x) + (y - p.y) * (y - p.y)
        < (TANK_RADIUS + BULLET_RADIUS) * (TANK_RADIUS + BULLET_RADIUS)

\* the ids of the projectiles of bs
BulletIds(bs) == {bs[i].id : i \in 1..Len(bs)}

\* the place of k in the iteration order
Place(k) == CHOOSE n \in 1..Len(order) : order[n] = k

(***************************************************************************)
(* C1.  The health of every connected tank is at least 0 and at most       *)
(* MAX_HEALTH in every state, whatever damage, repair, death or respawn    *)
(* did to it.                                                              *)
(***************************************************************************)
HealthInRange ==
    \A k \in DOMAIN players : players[k].hp >= 0 /\ players[k].hp <= MAX_HEALTH

\* a tick has struck a tank and left it alive with part of its health
StruckAndAlive ==
    \E k \in DOMAIN players :
        /\ HitsOn(k) # {}
        /\ players[k].isAlive
        /\ players[k].hp > 0
        /\ players[k].hp < MAX_HEALTH

(***************************************************************************)
(* C2.  In every state (so after each tick) the position of an alive tank  *)
(* is within [TANK_RADIUS, ARENA_WIDTH - TANK_RADIUS] on x and within      *)
(* [TANK_RADIUS, ARENA_HEIGHT - TANK_RADIUS] on y.                         *)
(***************************************************************************)
AliveInBounds ==
    \A k \in DOMAIN players :
        players[k].isAlive =>
            /\ players[k].x >= TANK_RADIUS
            /\ players[k].x <= ARENA_WIDTH - TANK_RADIUS
            /\ players[k].y >= TANK_RADIUS
            /\ players[k].y <= ARENA_HEIGHT - TANK_RADIUS

(***************************************************************************)
(* C3.  A tank goes from alive to dead only in a tick that struck it and   *)
(* brought its health to 0 or below, and from dead to alive only in a tick *)
(* whose clock is later than its respawn deadline; the deadline is the     *)
(* time of the death plus RESPAWN_TIME, and no tank is alive at a time     *)
(* that is not later than its deadline.                                    *)
(***************************************************************************)
AliveFlagTransitions ==
    [][/\ \A k \in DOMAIN players \cap DOMAIN players' :
            /\ (players[k].isAlive /\ ~players'[k].isAlive) =>
                  /\ last'.op = "tick"
                  /\ HitsOn(k)' # {}
                  /\ mid'[k].hp - BULLET_DAMAGE * Cardinality(HitsOn(k)') <= 0
            /\ (~players[k].isAlive /\ players'[k].isAlive) =>
                  /\ last'.op = "tick"
                  /\ now' > players[k].respawnTime
            /\ players'[k].respawnTime # players[k].respawnTime =>
                  /\ ~players'[k].isAlive
                  /\ players'[k].respawnTime = now' + RESPAWN_TIME
       /\ \A k \in DOMAIN players' :
            players'[k].isAlive => now' > players'[k].respawnTime
      ]_vars

\* a tick has just killed a tank
DeathSeen ==
    \E k \in DOMAIN players :
        /\ Emitted("died", k)
        /\ ~players[k].isAlive
        /\ players[k].respawnTime = now + RESPAWN_TIME

(***************************************************************************)
(* C4.  A dead tank has velocity 0 and health 0.  As long as it does not    *)
(* respawn, no step changes its position, velocity or health (whatever     *)
(* events it sends) and no projectile strikes it; when it respawns its     *)
(* input buffer is the cleared one, so input received while dead has no    *)
(* effect afterwards.                                                      *)
(***************************************************************************)
DeadTankInert ==
    [][\A k \in DOMAIN players' :
          /\ ~players'[k].isAlive =>
                players'[k].vx = 0 /\ players'[k].vy = 0 /\ players'[k].hp = 0
          /\ (k \in DOMAIN players /\ ~players[k].isAlive /\ ~Emitted("respawned", k)') =>
                /\ ~players'[k].isAlive
                /\ HitsOn(k)' = {}
                /\ players'[k].x = players[k].x
                /\ players'[k].y = players[k].y
                /\ players'[k].vx = players[k].vx
                /\ players'[k].vy = players[k].vy
                /\ players'[k].hp = players[k].hp
          /\ Emitted("respawned", k)' =>
                /\ k \in DOMAIN players /\ ~players[k].isAlive
                /\ mid'[k].isAlive
                /\ players'[k].inputState = ZeroInput
      ]_vars

\* a tick has just run over a dead tank that holds input sent while dead
DeadWithInputTicked ==
    \E k \in DOMAIN players :
        /\ last.op = "tick"
        /\ ~players[k].isAlive
        /\ players[k].inputState # ZeroInput

\* the state Player.respawn leaves, on a tank record
Restored(p) ==
    /\ p.isAlive
    /\ p.hp = MAX_HEALTH
    /\ p.vx = 0 /\ p.vy = 0
    /\ p.angle = 0 /\ p.targetAngle = 0
    /\ p.turretAngle = 0 /\ p.targetTurretAngle = 0
    /\ p.inputState = ZeroInput
    /\ p.x >= SPAWN_MARGIN /\ p.x <= ARENA_WIDTH - SPAWN_MARGIN
    /\ p.y >= SPAWN_MARGIN /\ p.y <= ARENA_HEIGHT - SPAWN_MARGIN

(***************************************************************************)
(* C5 as stated.  After a tick no tank with health 0 is alive, and a tank  *)
(* that was dead before a tick whose clock is later than its respawn       *)
(* deadline is, after that tick, alive with health MAX_HEALTH, zero        *)
(* velocity, body and turret angles and their targets at 0, input reset,   *)
(* and a position in the safe band.                                        *)
(***************************************************************************)
RespawnRestoresAfterTick ==
    [][last'.op = "tick" =>
          /\ \A k \in DOMAIN players' :
                players'[k].hp = 0 => ~players'[k].isAlive
          /\ \A k \in DOMAIN players :
                (~players[k].isAlive /\ now' > players[k].respawnTime) =>
                    Restored(players'[k])
      ]_vars

(***************************************************************************)
(* C5 amended.  After a tick no tank with health 0 is alive.  A tank that  *)
(* was dead before a tick whose clock is later than its respawn deadline   *)
(* is, right after the update pass of that tick, alive with health         *)
(* MAX_HEALTH, zero velocity, angles and targets at 0, input reset and a   *)
(* position in the safe band.  When the tick ends its angles, targets and  *)
(* input are still those; its health is MAX_HEALTH less BULLET_DAMAGE for  *)
(* each projectile that struck it in the tick (0, and dead again, when     *)
(* nothing is left); its position and velocity are those of the respawn    *)
(* when no other tank is alive.                                            *)
(***************************************************************************)
RespawnRestoresInUpdate ==
    [][last'.op = "tick" =>
          /\ \A k \in DOMAIN players' :
                players'[k].hp = 0 => ~players'[k].isAlive
          /\ \A k \in DOMAIN players :
                (~players[k].isAlive /\ now' > players[k].respawnTime) =>
                    LET hits == Cardinality(HitsOn(k)')
                        left == MAX_HEALTH - BULLET_DAMAGE * hits
                    IN  /\ Restored(mid'[k])
                        /\ Emitted("respawned", k)'
                        /\ players'[k].angle = 0
                        /\ players'[k].targetAngle = 0
                        /\ players'[k].turretAngle = 0
                        /\ players'[k].targetTurretAngle = 0
                        /\ players'[k].inputState = ZeroInput
                        /\ players'[k].isAlive = (left > 0)
                        /\ players'[k].hp = IF left > 0 THEN left ELSE 0
                        /\ (\A j \in DOMAIN players' \ {k} : ~players'[j].isAlive) =>
                              /\ players'[k].x = mid'[k].x
                              /\ players'[k].y = mid'[k].y
                              /\ players'[k].vx = 0
                              /\ players'[k].vy = 0
      ]_vars

\* a tick has respawned a tank and its separation pass has displaced it
RespawnDisplaced ==
    \E k \in DOMAIN players :
        /\ Emitted("respawned", k)
        /\ players[k].isAlive
        /\ players[k].hp = MAX_HEALTH
        /\ (players[k].x # mid[k].x \/ players[k].y # mid[k].y)
        /\ (players[k].vx # 0 \/ players[k].vy # 0)

(***************************************************************************)
(* C6.  With the timer firing and the clock advancing for ever, a          *)
(* connected dead tank whose respawn deadline lies before the end of the   *)
(* clock is eventually alive again, unless it disconnects.                 *)
(***************************************************************************)
EventuallyRespawns ==
    \A k \in IdSet :
        (k \in DOMAIN players /\ ~players[k].isAlive
                              /\ players[k].respawnTime < MaxTime)
            ~> (k \notin DOMAIN players \/ players[k].isAlive)

\* a tick has respawned a tank whose connection is still open
RespawnSeen ==
    \E k \in DOMAIN players :
        /\ Emitted("respawned", k)
        /\ conn[k] = "open"
        /\ players[k].isAlive
        /\ now > players[k].respawnTime

RepairOncePerCooldown ==
    [][/\ last'.op = "repair" =>
             LET k == last'.id
                 cooling == /\ k \in DOMAIN lastRepairTime
                            /\ now - lastRepairTime[k] < REPAIR_COOLDOWN
             IN  IF k \in DOMAIN players /\ players[k].isAlive /\ ~cooling
                 THEN /\ players'[k].hp = Min(MAX_HEALTH, players[k].hp + REPAIR_AMOUNT)
                      /\ lastRepairTime'[k] = now
                      /\ out' = <<[ev |-> "repaired", to |-> k, hp |-> players'[k].hp]>>
                 ELSE /\ players' = players
                      /\ lastRepairTime' = lastRepairTime
                      /\ out' = <<>>
       /\ \A k \in DOMAIN lastRepairTime' :
             (k \notin DOMAIN lastRepairTime \/ lastRepairTime'[k] # lastRepairTime[k]) =>
                 /\ last' = [op |-> "repair", id |-> k]
                 /\ lastRepairTime'[k] = now'
      ]_vars

\* a repair event of an alive, damaged tank has just been refused for the
\* cooldown
RepairRefused ==
    \E k \in DOMAIN players :
        /\ last = [op |-> "repair", id |-> k]
        /\ out = <<>>
        /\ players[k].isAlive
        /\ players[k].hp < MAX_HEALTH
        /\ k \in DOMAIN lastRepairTime
        /\ now - lastRepairTime[k] < REPAIR_COOLDOWN

(***************************************************************************)
(* C9 as stated.  In a tick, every strike is on a tank other than the      *)
(* projectile's owner that was alive and closer to the moved projectile    *)
(* than TANK_RADIUS + BULLET_RADIUS; the projectile leaves the world; each *)
(* strike lowers the health of the struck tank by exactly BULLET_DAMAGE,   *)
(* whatever the health was; and no projectile that stays in the world is   *)
(* that close to an alive tank other than its owner.                       *)
(***************************************************************************)
StrikeTakesExactDamage ==
    [][last'.op = "tick" =>
          /\ \A i \in 1..Len(out') :
                out'[i].ev = "hit" =>
                    /\ out'[i].to # out'[i].attacker
                    /\ out'[i].to \in DOMAIN mid'
                    /\ mid'[out'[i].to].isAlive
                    /\ InReach(out'[i].bx, out'[i].by, mid'[out'[i].to])
                    /\ out'[i].damage = BULLET_DAMAGE
                    /\ out'[i].bullet \notin BulletIds(bullets')
          /\ \A k \in DOMAIN players' :
                players'[k].hp = mid'[k].hp - BULLET_DAMAGE * Cardinality(HitsOn(k)')
          /\ \A n \in 1..Len(bullets') : \A k \in DOMAIN players' :
                (players'[k].isAlive /\ k # bullets'[n].owner) =>
                    ~InReach(bullets'[n].x, bullets'[n].y, mid'[k])
      ]_vars

(***************************************************************************)
(* C9 amended.  As above, but each strike lowers the health of the struck  *)
(* tank by BULLET_DAMAGE only down to 0: a tank whose health does not      *)
(* exceed the damage it takes in the tick ends the tick dead with health   *)
(* 0, having lost what it had.                                             *)
(***************************************************************************)
StrikeTakesDamageToZero ==
    [][last'.op = "tick" =>
          /\ \A i \in 1..Len(out') :
                out'[i].ev = "hit" =>
                    /\ out'[i].to # out'[i].attacker
                    /\ out'[i].to \in DOMAIN mid'
                    /\ mid'[out'[i].to].isAlive
                    /\ InReach(out'[i].bx, out'[i].by, mid'[out'[i].to])
                    /\ out'[i].damage = BULLET_DAMAGE
                    /\ out'[i].bullet \notin BulletIds(bullets')
          /\ \A k \in DOMAIN players' :
                LET left == mid'[k].hp - BULLET_DAMAGE * Cardinality(HitsOn(k)')
                IN  /\ players'[k].hp = IF left > 0 THEN left ELSE 0
                    /\ HitsOn(k)' # {} => players'[k].isAlive = (left > 0)
          /\ \A n \in 1..Len(bullets') : \A k \in DOMAIN players' :
                (players'[k].isAlive /\ k # bullets'[n].owner) =>
                    ~InReach(bullets'[n].x, bullets'[n].y, mid'[k])
      ]_vars

\* a tick has struck a tank that had less than BULLET_DAMAGE left
WeakTankStruck ==
    \E k \in DOMAIN players :
        /\ HitsOn(k) # {}
        /\ mid[k].hp > 0
        /\ mid[k].hp < BULLET_DAMAGE
        /\ players[k].hp = 0
        /\ ~players[k].isAlive

(***************************************************************************)
(* C10.  In a tick no projectile strikes twice; the projectile that        *)
(* strikes was in the world and is not in it afterwards; the tank it       *)
(* strikes is the first in the iteration order that qualifies: every       *)
(* earlier tank other than the owner that the projectile reached is dead   *)
(* when the tick ends.  Strikes happen only in ticks.  Projectile ids are  *)
(* issued once, in increasing order, so a projectile that left the world   *)
(* never returns.                                                          *)
(***************************************************************************)
OneStrikePerProjectile ==
    [][/\ last'.op = "tick" =>
             /\ order' = order
             /\ \A i, j \in 1..Len(out') :
                   (out'[i].ev = "hit" /\ out'[j].ev = "hit"
                        /\ out'[i].bullet = out'[j].bullet) => i = j
             /\ \A i \in 1..Len(out') :
                   out'[i].ev = "hit" =>
                       /\ out'[i].bullet \in BulletIds(bullets)
                       /\ out'[i].bullet \notin BulletIds(bullets')
                       /\ \A j \in DOMAIN mid' :
                             (/\ Place(j) < Place(out'[i].to)
                              /\ j # out'[i].attacker
                              /\ mid'[j].isAlive
                              /\ InReach(out'[i].bx, out'[i].by, mid'[j]))
                                 => ~players'[j].isAlive
       /\ last'.op # "tick" => \A i \in 1..Len(out') : out'[i].ev # "hit"
       /\ \A id \in BulletIds(bullets) : id < bulletIdCounter
       /\ bulletIdCounter' >= bulletIdCounter
       /\ \A id \in BulletIds(bullets') \ BulletIds(bullets) :
             id >= bulletIdCounter /\ id < bulletIdCounter'
       /\ \A i, j \in 1..Len(bullets') :
             bullets'[i].id = bullets'[j].id => i = j
      ]_vars

\* a tick has struck one tank with a projectile that had reached two
TwoInReach ==
    \E i \in 1..Len(out) :
        /\ out[i].ev = "hit"
        /\ \E j \in DOMAIN mid \ {out[i].to} :
              /\ j # out[i].attacker
              /\ mid[j].isAlive
              /\ InReach(out[i].bx, out[i].by, mid[j])
              /\ InReach(out[i].bx, out[i].by, mid[out[i].to])

\* the number of "playerDied" events of the last handler that name k the killer
Kills(k) ==
    Cardinality({i \in 1..Len(out) : out[i].ev = "playerDied" /\ out[i].killerId = k})

\* the number of "kill" events the last handler sent to k
KillNotes(k) ==
    Cardinality({i \in 1..Len(out) : out[i].ev = "kill" /\ out[i].to = k})

(***************************************************************************)
(* C11.  In every step the score of a tank that stays in the world grows   *)
(* by KILL_SCORE for each tank that a projectile it owns killed in that    *)
(* step, and by nothing else: steps other than ticks, hits that are not    *)
(* lethal, the tank's own death and its respawn leave it as it was.  A     *)
(* tank is killed only in a tick, by a strike that leaves it dead; a kill  *)
(* by a projectile whose owner has left changes no score and notifies      *)
(* nobody.  A tank enters the world with score 0.                          *)
(***************************************************************************)
ScoreByKills ==
    [][/\ \A k \in DOMAIN players \cap DOMAIN players' :
             /\ players'[k].score = players[k].score + KILL_SCORE * Kills(k)'
             /\ KillNotes(k)' = Kills(k)'
             /\ Kills(k)' > 0 => last'.op = "tick"
       /\ \A k \in DOMAIN players' \ DOMAIN players : players'[k].score = 0
       /\ \A i \in 1..Len(out') :
             /\ out'[i].ev = "playerDied" =>
                   /\ out'[i].playerId \in DOMAIN mid'
                   /\ mid'[out'[i].playerId].isAlive
                   /\ ~players'[out'[i].playerId].isAlive
                   /\ \E j \in 1..Len(out') :
                         /\ out'[j].ev = "hit"
                         /\ out'[j].to = out'[i].playerId
                         /\ out'[j].attacker = out'[i].killerId
             /\ out'[i].ev = "kill" => out'[i].to \in DOMAIN players'
       /\ \A k \in DOMAIN players \cap DOMAIN players' :
             (players[k].isAlive /\ ~players'[k].isAlive) =>
                 \E i \in 1..Len(out') :
                     out'[i].ev = "playerDied" /\ out'[i].playerId = k
      ]_vars

\* a tick has killed a tank and credited the owner of the projectile
KillCredited ==
    \E k \in DOMAIN players :
        /\ last.op = "tick"
        /\ Kills(k) = 1
        /\ players[k].score >= KILL_SCORE

\* a tick has killed a tank with a projectile whose owner had left
OrphanKill ==
    \E i \in 1..Len(out) :
        out[i].ev = "playerDied" /\ out[i].killerId \notin DOMAIN players

\* a tick has struck a tank without killing it
HitNotLethal ==
    \E k \in DOMAIN players : HitsOn(k) # {} /\ players[k].isAlive

\* a tick has respawned a tank that has a score
RespawnWithScore ==
    \E k \in DOMAIN players : Emitted("respawned", k) /\ players[k].score > 0

\* the ids of the projectiles that struck a tank in the last tick
Struck == {out[i].bullet : i \in {i \in 1..Len(out) : out[i].ev = "hit"}}

\* the projectiles of the world that the tick now due moves out of the
\* extended bounds or finds past their lifetime
Lapsing ==
    {bullets[n].id : n \in {n \in 1..Len(bullets) :
        BulletExpired(BulletMove(bullets[n], ClampedDelta(now, lastTick)), now)}}

\* the projectile of the world with this id
BulletOf(bs, id) == bs[CHOOSE n \in 1..Len(bs) : bs[n].id = id]

(***************************************************************************)
(* C12.  After a tick the world holds at most MAX_BULLETS projectiles.     *)
(* The projectiles a tick removes without a strike and without expiry      *)
(* (the evicted ones) are removed only when more than MAX_BULLETS were     *)
(* left by the collision pass, exactly as many as exceed MAX_BULLETS, and  *)
(* none of them was created later than a projectile that stays.            *)
(***************************************************************************)
CapEvictsOldest ==
    [][last'.op = "tick" =>
          LET gone == (BulletIds(bullets) \ BulletIds(bullets'))
                          \ (Struck' \cup Lapsing)
          IN  /\ Len(bullets') <= MAX_BULLETS
              /\ gone # {} => Len(bullets') = MAX_BULLETS
              /\ \A e \in gone : \A n \in 1..Len(bullets') :
                     BulletOf(bullets, e).createdAt <= bullets'[n].createdAt
      ]_vars

\* the first tick of Barrage found 52 projectiles after the collision pass
\* and evicted the two oldest of the nine of the oldest volley
TwoEvicted ==
    /\ last.op = "tick"
    /\ now = StartTime
    /\ Len(bullets) = MAX_BULLETS
    /\ BulletIds(bullets) = (2..51) \ Struck
    /\ Cardinality(Struck) <= 1

\* the first tick of Barrage evicted the oldest projectile
OneEvicted ==
    /\ last.op = "tick"
    /\ now = StartTime
    /\ Len(bullets) = MAX_BULLETS
    /\ BulletIds(bullets) = 1..50

(***************************************************************************)
(* C13.  A shoot event of a tank in the world that is alive and whose last *)
(* shot is at least SHOOT_COOLDOWN old appends one projectile to the       *)
(* world, whatever the number of projectiles the world holds: the          *)
(* projectile is owned by the tank, carries the next id and the clock as   *)
(* its creation time, and the others stay as they were.  No step other     *)
(* than a tick removes a projectile.                                       *)
(***************************************************************************)
ShotAlwaysAdds ==
    [][/\ (/\ last'.op = "shoot"
            /\ last'.id \in DOMAIN players
            /\ players[last'.id].isAlive
            /\ now - players[last'.id].lastShot >= SHOOT_COOLDOWN)
          => /\ Len(bullets') = Len(bullets) + 1
             /\ SubSeq(bullets', 1, Len(bullets)) = bullets
             /\ bullets'[Len(bullets')].owner = last'.id
             /\ bullets'[Len(bullets')].id = bulletIdCounter
             /\ bullets'[Len(bullets')].createdAt = now
             /\ Emitted("shootSound", "others")'
       /\ last'.op # "tick"
          => /\ Len(bullets') >= Len(bullets)
             /\ SubSeq(bullets', 1, Len(bullets)) = bullets
      ]_vars

\* a shot has been added to a world that held more than MAX_BULLETS
ShotOverCap ==
    /\ last.op = "shoot"
    /\ Len(bullets) > MAX_BULLETS + 1
    /\ bullets[Len(bullets)].owner = last.id
    /\ bullets[Len(bullets)].createdAt = now
    /\ bullets[Len(bullets)].id = bulletIdCounter - 1

(***************************************************************************)
(* C14.  The id counter advances only in a shoot step that adds a          *)
(* projectile, by one, and the projectile added carries the value the      *)
(* counter had; every other step (a refused shot, a tick with its          *)
(* removals and evictions, a disconnect, ...) leaves the counter alone     *)
(* and brings no new id into the world.  The ids of the world are below    *)
(* the counter, distinct, and increase in the order of creation.           *)
(***************************************************************************)
IdsIssuedOnce ==
    [][/\ \/ /\ bulletIdCounter' = bulletIdCounter + 1
                /\ last'.op = "shoot"
                /\ bullets' = Append(bullets, bullets'[Len(bullets')])
                /\ bullets'[Len(bullets')].id = bulletIdCounter
             \/ /\ bulletIdCounter' = bulletIdCounter
                /\ BulletIds(bullets') \subseteq BulletIds(bullets)
       /\ \A n \in 1..Len(bullets') : bullets'[n].id < bulletIdCounter'
       /\ \A m, n \in 1..Len(bullets') :
             m < n => /\ bullets'[m].id < bullets'[n].id
                      /\ bullets'[m].createdAt <= bullets'[n].createdAt
      ]_vars

\* a shot has taken a new id after a tick had removed a projectile, and an
\* earlier id is no longer in the world
IdAfterRemoval ==
    /\ last.op = "shoot"
    /\ Len(bullets) > 0
    /\ bullets[Len(bullets)].id = bulletIdCounter - 1
    /\ lastTick = now
    /\ Len(bullets) > MAX_BULLETS
    /\ \E id \in 0..bulletIdCounter - 2 : id \notin BulletIds(bullets)

\* the projectile b is inside the extended bounds
InExtendedBounds(b) ==
    /\ b.x >= -BULLET_MARGIN /\ b.x <= ARENA_WIDTH + BULLET_MARGIN
    /\ b.y >= -BULLET_MARGIN /\ b.y <= ARENA_HEIGHT + BULLET_MARGIN

(***************************************************************************)
(* C15.  A projectile that is in the world after a tick is inside the      *)
(* extended bounds, is at most BULLET_LIFETIME old at the clock of the     *)
(* tick and did not strike in it.  A projectile leaves the world only in a *)
(* tick, and only when its movement took it out of the extended bounds,    *)
(* or it is past its lifetime, or it struck a tank, or the tick ended with *)
(* the world at MAX_BULLETS (eviction).  A projectile that enters the      *)
(* world carries an id the counter had not issued before, so none          *)
(* returns.                                                                *)
(***************************************************************************)
ProjectileLifecycle ==
    [][/\ last'.op = "tick" =>
             \A n \in 1..Len(bullets') :
                 /\ InExtendedBounds(bullets'[n])
                 /\ now' - bullets'[n].createdAt <= BULLET_LIFETIME
                 /\ bullets'[n].id \notin Struck'
       /\ \A id \in BulletIds(bullets) \ BulletIds(bullets') :
             /\ last'.op = "tick"
             /\ \/ id \in Lapsing
                \/ id \in Struck'
                \/ Len(bullets') = MAX_BULLETS
       /\ \A id \in BulletIds(bullets') \ BulletIds(bullets) :
             id >= bulletIdCounter
       /\ \A id \in BulletIds(bullets) : id < bulletIdCounter
       /\ bulletIdCounter' >= bulletIdCounter
      ]_vars

\* a late tick of Barrage has removed the projectile 8 (past its lifetime,
\* inside the bounds) and the projectile 18 (out of bounds, young enough)
\* and kept their neighbours
ExpiriesSeen ==
    /\ last.op = "tick"
    /\ now - Shells[9].createdAt > BULLET_LIFETIME
    /\ now - Shells[19].createdAt <= BULLET_LIFETIME
    /\ {8, 18} \cap BulletIds(bullets) = {}
    /\ {17, 19} \subseteq BulletIds(bullets)

(***************************************************************************)
(* C16.  Whatever the step (an inbound event, a tick with its collisions   *)
(* and evictions, a broadcast, a disconnect), a projectile that is in the  *)
(* world before and after it has the velocity, the owner, the travel       *)
(* angle and the creation time it had; a projectile enters the world with  *)
(* the speed BULLET_SPEED along the turret angle of its tank.              *)
(***************************************************************************)
ProjectileMotionFixed ==
    [][/\ \A m \in 1..Len(bullets) : \A n \in 1..Len(bullets') :
             bullets[m].id = bullets'[n].id =>
                 /\ bullets'[n].vx = bullets[m].vx
                 /\ bullets'[n].vy = bullets[m].vy
                 /\ bullets'[n].owner = bullets[m].owner
                 /\ bullets'[n].angle = bullets[m].angle
                 /\ bullets'[n].createdAt = bullets[m].createdAt
       /\ \A n \in 1..Len(bullets') :
             bullets'[n].id \notin BulletIds(bullets) =>
                 /\ bullets'[n].owner \in DOMAIN players'
                 /\ bullets'[n].angle = players'[bullets'[n].owner].turretAngle
                 /\ bullets'[n].vx = Div(Cos1000(bullets'[n].angle) * BULLET_SPEED, 1000)
                 /\ bullets'[n].vy = Div(Sin1000(bullets'[n].angle) * BULLET_SPEED, 1000)
      ]_vars

\* a tick has moved a projectile whose tank has turned its turret since
TurretTurnedAway ==
    /\ last.op = "tick"
    /\ \E n \in 1..Len(bullets) :
          /\ bullets[n].owner \in DOMAIN players
          /\ players[bullets[n].owner].isAlive
          /\ players[bullets[n].owner].turretAngle # bullets[n].angle

\* a tick has moved a projectile whose tank is dead
OwnerDead ==
    /\ last.op = "tick"
    /\ \E n \in 1..Len(bullets) :
          /\ bullets[n].owner \in DOMAIN players
          /\ ~players[bullets[n].owner].isAlive

\* a tick has moved a projectile whose tank has left
OwnerLeft ==
    /\ last.op = "tick"
    /\ \E n \in 1..Len(bullets) :
          /\ bullets[n].owner \in IdSet
          /\ conn[bullets[n].owner] = "closed"

(***************************************************************************)
(* C17.  No strike is on the tank that owns the projectile: in every hit   *)
(* the struck tank differs from the attacker, and the attacker is the      *)
(* owner the projectile had in the world.  A tank loses health in a step   *)
(* only when a projectile of another owner struck it in that step.         *)
(***************************************************************************)
NoSelfDamage ==
    [][/\ \A i \in 1..Len(out') :
             out'[i].ev = "hit" =>
                 /\ out'[i].to # out'[i].attacker
                 /\ out'[i].bullet \in BulletIds(bullets)
                 /\ BulletOf(bullets, out'[i].bullet).owner = out'[i].attacker
       /\ \A k \in DOMAIN players \cap DOMAIN players' :
             players'[k].hp < players[k].hp =>
                 \E i \in HitsOn(k)' : out'[i].attacker # k
      ]_vars

\* a tick has left in the world a projectile that was, after its movement,
\* within reach of its own alive tank, and that tank was not struck
OwnProjectileInReach ==
    /\ last.op = "tick"
    /\ \E n \in 1..Len(bullets) :
          /\ bullets[n].owner \in DOMAIN mid
          /\ mid[bullets[n].owner].isAlive
          /\ InReach(bullets[n].x, bullets[n].y, mid[bullets[n].owner])
          /\ HitsOn(bullets[n].owner) = {}
          /\ players[bullets[n].owner].hp = mid[bullets[n].owner].hp

\* the inbound events of a connection that has a tank
TankEvents == {"move", "aim", "shoot", "repair"}

(***************************************************************************)
(* C18.  A move, aim, shoot or repair event of a connection that has no    *)
(* tank in the world is handled to its end and changes nothing: not the    *)
(* tanks, their order or their repair records, not the projectiles, not    *)
(* the id counter, not the connections; it emits nothing.  Such an event   *)
(* comes only from a connection that has been closed.                      *)
(***************************************************************************)
StaleEventsIgnored ==
    [][(last'.op \in TankEvents /\ last'.id \notin DOMAIN players) =>
          /\ conn[last'.id] = "closed"
          /\ out' = <<>>
          /\ UNCHANGED <<players, order, lastRepairTime, bullets,
                         bulletIdCounter, conn, now, lastTick>>
      ]_vars

\* the last handler served a shoot event of a closed connection while the
\* world holds a tank that could have been affected
StaleShootSeen ==
    /\ last.op = "shoot"
    /\ conn[last.id] = "closed"
    /\ last.id \notin DOMAIN players
    /\ DOMAIN players # {}

\* the last handler served a move, aim or repair event of a closed connection
StaleOtherSeen(op) == last.op = op /\ conn[last.id] = "closed"

\* the connection id has no trace in the world or in what the last handler
\* sent, but for projectiles it owns
Absent(id) ==
    /\ id \notin DOMAIN players
    /\ id \notin DOMAIN lastRepairTime
    /\ \A n \in 1..Len(order) : order[n] # id
    /\ id \notin DOMAIN mid
    /\ \A i \in 1..Len(out) :
          /\ out[i].to # id
          /\ out[i].ev \in {"state", "existingPlayers"} =>
                id \notin DOMAIN out[i].players

(***************************************************************************)
(* C19.  A disconnect takes the tank of the connection out of the tank     *)
(* collection and deletes its repair record; it leaves the other tanks,    *)
(* the projectiles (those of the tank included) and the id counter as      *)
(* they were.  From then on the connection stays closed, and after every   *)
(* step its tank is in no collection, in no update pass, target of no      *)
(* event (hit, kill, respawned) and in no snapshot.  A tick moves every    *)
(* projectile it keeps by its velocity, whoever owns it.                   *)
(***************************************************************************)
LeaveRemovesTank ==
    [][/\ \A id \in IdSet :
             /\ conn[id] = "closed" => conn'[id] = "closed"
             /\ conn'[id] = "closed" => Absent(id)'
       /\ last'.op = "leave" =>
             /\ conn[last'.id] = "open"
             /\ conn'[last'.id] = "closed"
             /\ DOMAIN players' = DOMAIN players \ {last'.id}
             /\ \A k \in DOMAIN players' : players'[k] = players[k]
             /\ DOMAIN lastRepairTime' = DOMAIN lastRepairTime \ {last'.id}
             /\ \A k \in DOMAIN lastRepairTime' :
                   lastRepairTime'[k] = lastRepairTime[k]
             /\ bullets' = bullets
             /\ bulletIdCounter' = bulletIdCounter
       /\ last'.op = "tick" =>
             \A m \in 1..Len(bullets) : \A n \in 1..Len(bullets') :
                 bullets[m].id = bullets'[n].id =>
                     /\ bullets'[n].x = bullets[m].x
                           + Div(bullets[m].vx * Min(now - lastTick, MAX_DELTA_MS), 1000)
                     /\ bullets'[n].y = bullets[m].y
                           + Div(bullets[m].vy * Min(now - lastTick, MAX_DELTA_MS), 1000)
      ]_vars

\* a tick has struck a tank with the projectile of a connection that had
\* closed before the tick
OrphanStrikes ==
    /\ last.op = "tick"
    /\ \E i \in 1..Len(out) :
          /\ out[i].ev = "hit"
          /\ out[i].attacker \in IdSet
          /\ conn[out[i].attacker] = "closed"

\* a tick has moved the projectile of a connection that had closed before
OrphanFlies ==
    /\ last.op = "tick"
    /\ \E n \in 1..Len(bullets) :
          /\ bullets[n].owner \in IdSet
          /\ conn[bullets[n].owner] = "closed"
          /\ bullets[n].createdAt <= lastTick

\* a connection with a repair record has closed
RecordDeleted ==
    /\ last.op = "leave"
    /\ last.id = "b"
    /\ lastRepairTime = NoPlayers
    /\ "a" \in DOMAIN players

\* what the handlers other than sendUpdates read and write
world == <<now, lastTick, order, players, bullets, lastRepairTime,
           bulletIdCounter, conn>>

(***************************************************************************)
(* C20.  A broadcast leaves the world as it is: the tanks with all their   *)
(* fields and their order, the projectiles, the repair records, the id     *)
(* counter, the connections and the time of the last tick.  It sends one   *)
(* snapshot, which holds what toJSON gives for each tank and projectile    *)
(* of the world and the clock.  The world therefore goes through the same  *)
(* states with the broadcasts as without them.                             *)
(***************************************************************************)
BroadcastReadsOnly ==
    [][last'.op = "broadcast" =>
          /\ world' = world
          /\ Len(out') = 1
          /\ out'[1].ev = "state"
          /\ out'[1].timestamp = now
          /\ DOMAIN out'[1].players = DOMAIN players
          /\ \A k \in DOMAIN players :
                /\ out'[1].players[k].x = players[k].x
                /\ out'[1].players[k].y = players[k].y
                /\ out'[1].players[k].hp = players[k].hp
                /\ out'[1].players[k].score = players[k].score
                /\ out'[1].players[k].isAlive = players[k].isAlive
          /\ Len(out'[1].bullets) = Len(bullets)
          /\ \A n \in 1..Len(bullets) :
                /\ out'[1].bullets[n].id = bullets[n].id
                /\ out'[1].bullets[n].x = bullets[n].x
                /\ out'[1].bullets[n].y = bullets[n].y
                /\ out'[1].bullets[n].owner = bullets[n].owner
      ]_vars

\* a broadcast has run between a shot and the tick that moves it, with a
\* tank in the world
BroadcastBeforeTick ==
    /\ last.op = "broadcast"
    /\ players # NoPlayers
    /\ Len(bullets) > 0
    /\ bullets[Len(bullets)].createdAt = now
    /\ lastTick < now

\* a broadcast has run after a tick at the same clock value
BroadcastAfterTick ==
    /\ last.op = "broadcast"
    /\ players # NoPlayers
    /\ Len(bullets) > 0
    /\ lastTick = now

\* the time since the last tick, at most MAX_DELTA_MS
Elapsed == IF now - lastTick < MAX_DELTA_MS THEN now - lastTick ELSE MAX_DELTA_MS

(***************************************************************************)
(* C21.  Every tick, also one that comes more than MAX_DELTA_MS after the  *)
(* previous one, takes the time since the previous tick, at most           *)
(* MAX_DELTA_MS, as the delta of every update: every alive tank is         *)
(* updated with it, every projectile the tick keeps has moved by its       *)
(* velocity times it, the collision pass has run (no projectile kept is    *)
(* within reach of a tank other than its owner that is alive after the     *)
(* tick) and so has the cap; the tick is recorded as the last one.         *)
(***************************************************************************)
TickUsesClampedDelta ==
    [][last'.op = "tick" =>
             /\ Elapsed > 0
             /\ lastTick' = now
             /\ now' = now
             /\ DOMAIN mid' = DOMAIN players
             /\ \A k \in DOMAIN players :
                   players[k].isAlive => mid'[k] = Physics(players[k], Elapsed)
             /\ \A m \in 1..Len(bullets) : \A n \in 1..Len(bullets') :
                   bullets[m].id = bullets'[n].id =>
                       /\ bullets'[n].x = bullets[m].x + Div(bullets[m].vx * Elapsed, 1000)
                       /\ bullets'[n].y = bullets[m].y + Div(bullets[m].vy * Elapsed, 1000)
             /\ \A n \in 1..Len(bullets') : \A k \in DOMAIN mid' :
                   (players'[k].isAlive /\ k # bullets'[n].owner) =>
                       ~InReach(bullets'[n].x, bullets'[n].y, mid'[k])
             /\ Len(bullets') <= MAX_BULLETS
      ]_vars

\* a tick has run after a stall: it moved a projectile by MAX_DELTA_MS of
\* flight and struck a tank with it
StalledTickStrikes ==
    /\ last.op = "tick"
    /\ now >= StartTime + 3 * MAX_DELTA_MS
    /\ \E i \in 1..Len(out) : out[i].ev = "hit"

\* a tick has run after a stall and has pushed two tanks apart
StalledTickSeparates ==
    /\ last.op = "tick"
    /\ now >= StartTime + 3 * MAX_DELTA_MS
    /\ \E k \in DOMAIN players :
          mid[k].isAlive /\ (players[k].x # mid[k].x \/ players[k].y # mid[k].y)

\* the angle in (-180, 180] that differs from d by whole turns
Shorter(d) == CHOOSE r \in -179..180 : (d - r) % 360 = 0

(***************************************************************************)
(* C22.  In every update of an alive tank the difference between target    *)
(* and current angle, of the body and of the turret, is brought into       *)
(* (-180, 180] degrees before the step is taken, whatever the two angles   *)
(* are: the body turns by SMOOTHING_FACTOR of the shorter difference, the  *)
(* turret by TURRET_TURN_SPEED * delta of it.                              *)
(***************************************************************************)
RotationTakesShorterPath ==
    [][last'.op = "tick" =>
         \A k \in DOMAIN players :
            players[k].isAlive =>
              /\ mid'[k].angle = players[k].angle
                    + Div(Shorter(mid'[k].targetAngle - players[k].angle)
                            * SMOOTHING_FACTOR_TENTHS, 10)
              /\ mid'[k].turretAngle = players[k].turretAngle
                    + Div(Shorter(mid'[k].targetTurretAngle - players[k].turretAngle)
                            * TURRET_TURN_SPEED * Elapsed, 1000)
      ]_vars

\* the same for the differences from -180 up to, not including, 180 degrees
RotationShorterFromHalfTurn ==
    [][last'.op = "tick" =>
         \A k \in DOMAIN players :
            players[k].isAlive =>
              /\ LET d == mid'[k].targetAngle - players[k].angle
                 IN  (d >= -180 /\ d < 180) =>
                        mid'[k].angle = players[k].angle
                                          + Div(d * SMOOTHING_FACTOR_TENTHS, 10)
              /\ LET d == mid'[k].targetTurretAngle - players[k].turretAngle
                 IN  (d >= -180 /\ d < 180) =>
                        mid'[k].turretAngle = players[k].turretAngle
                                          + Div(d * TURRET_TURN_SPEED * Elapsed, 1000)
      ]_vars

\* a tick has turned a body the long way round: its target is more than
\* half a turn below its angle and it has turned further down
TurnedTheLongWay ==
    /\ last.op = "tick"
    /\ \E k \in DOMAIN players :
          /\ mid[k].isAlive
          /\ mid[k].angle < 135
          /\ mid[k].angle > 0
          /\ mid[k].targetAngle = -135

\* the later of the last tick and the creation of projectile b
Since(b) == IF b.createdAt > lastTick THEN b.createdAt ELSE lastTick

\* a projectile enters the world at the turret offset from its tank, along
\* the turret angle, stamped with the clock
SpawnedAtTurret ==
    \A n \in 1..Len(bullets') :
        bullets'[n].id \notin BulletIds(bullets) =>
            /\ bullets'[n].owner \in DOMAIN players'
            /\ bullets'[n].createdAt = now
            /\ bullets'[n].x = players'[bullets'[n].owner].x
                  + Div(Cos1000(bullets'[n].angle) * TANK_TURRET_OFFSET, 1000)
            /\ bullets'[n].y = players'[bullets'[n].owner].y
                  + Div(Sin1000(bullets'[n].angle) * TANK_TURRET_OFFSET, 1000)

(***************************************************************************)
(* C23, as stated.  The position of a projectile in the world is its       *)
(* spawn position plus its velocity times the time since it was created,   *)
(* at every tick, whenever the shot was fired and whatever the spacing of  *)
(* the ticks: it enters the world at its spawn position, and a tick moves  *)
(* it by its velocity times the time since the later of its creation and   *)
(* the previous tick.                                                      *)
(***************************************************************************)
ProjectileLinearInTime ==
    [][/\ SpawnedAtTurret
       /\ last'.op = "tick" =>
             \A m \in 1..Len(bullets) : \A n \in 1..Len(bullets') :
                bullets[m].id = bullets'[n].id =>
                    /\ bullets'[n].x = bullets[m].x
                          + Div(bullets[m].vx * (now - Since(bullets[m])), 1000)
                    /\ bullets'[n].y = bullets[m].y
                          + Div(bullets[m].vy * (now - Since(bullets[m])), 1000)
      ]_vars

(***************************************************************************)
(* C23, amended.  A projectile enters the world at its spawn position;     *)
(* every tick that keeps it moves it by its velocity times the delta of    *)
(* that tick, min(time since the previous tick, MAX_DELTA_MS), also when   *)
(* it was created after the previous tick; no other step moves it.  Its    *)
(* position is the spawn position plus the velocity times the sum of the   *)
(* deltas of the ticks since it was created.                               *)
(***************************************************************************)
ProjectileMovesByTickDeltas ==
    [][/\ SpawnedAtTurret
       /\ \A m \in 1..Len(bullets) : \A n \in 1..Len(bullets') :
             bullets[m].id = bullets'[n].id =>
                 LET step == IF last'.op = "tick" THEN Elapsed ELSE 0
                 IN  /\ bullets'[n].x = bullets[m].x + Div(bullets[m].vx * step, 1000)
                     /\ bullets'[n].y = bullets[m].y + Div(bullets[m].vy * step, 1000)
      ]_vars

\* a tick has moved a projectile that was fired at the clock value of the
\* tick, after the previous tick
MovedWhenJustFired ==
    /\ last.op = "tick"
    /\ \E n \in 1..Len(bullets) :
          /\ bullets[n].createdAt = now
          /\ bullets[n].vx = BULLET_SPEED
          /\ bullets[n].owner \in DOMAIN players
          /\ players[bullets[n].owner].x = mid[bullets[n].owner].x
          /\ mid[bullets[n].owner].vx = 0
          /\ bullets[n].x > players[bullets[n].owner].x + TANK_TURRET_OFFSET

\* a tick has moved a projectile by MAX_DELTA_MS of flight, more than
\* MAX_DELTA_MS after it was created and after the previous tick
MovedLessThanStall ==
    /\ last.op = "tick"
    /\ \E n \in 1..Len(bullets) :
          /\ now - bullets[n].createdAt = 3 * MAX_DELTA_MS
          /\ bullets[n].vx = BULLET_SPEED
          /\ bullets[n].owner \in DOMAIN players
          /\ bullets[n].x = players[bullets[n].owner].x + TANK_TURRET_OFFSET
                               + Div(BULLET_SPEED * MAX_DELTA_MS, 1000)

\* the squared distance of the centres of two tanks
Dist2(p, q) == (p.x - q.x) * (p.x - q.x) + (p.y - q.y) * (p.y - q.y)

\* tanks k1 and k2 are alive when the tank-to-tank pass of the tick runs and
\* every other tank alive then is further than 4 * TANK_RADIUS from both,
\* so that the pass handles no other pair with k1 or k2 in reach
PairAlone(k1, k2) ==
    /\ k1 # k2
    /\ players'[k1].isAlive
    /\ players'[k2].isAlive
    /\ \A k3 \in DOMAIN players' \ {k1, k2} :
          players'[k3].isAlive =>
              /\ Dist2(mid'[k3], mid'[k1]) > 16 * TANK_RADIUS * TANK_RADIUS
              /\ Dist2(mid'[k3], mid'[k2]) > 16 * TANK_RADIUS * TANK_RADIUS

\* c is a * b / (2 * d) cut to a whole number (a * b / (2 * d) is one
\* coordinate of the vector of length b / 2 along the line of centres)
HalfAlong(c, a, b, d) ==
    /\ Abs(c * 2 * d) <= Abs(a * b)
    /\ Abs(a * b) < Abs(c * 2 * d) + 2 * d
    /\ c * a >= 0

CoincidentLeft ==
    /\ last.op = "tick"
    /\ \E k1, k2 \in DOMAIN players :
          /\ k1 # k2
          /\ players[k1].isAlive /\ players[k2].isAlive
          /\ Dist2(mid[k1], mid[k2]) = 0
          /\ Dist2(players[k1], players[k2]) = 0

\* the input buffers without a direction
IdleInputs ==
    {[dx |-> 0, dy |-> 0, boost |-> b, mouseX |-> m.x, mouseY |-> m.y] :
        b \in BOOLEAN, m \in AimPoints \cup {[x |-> 0, y |-> 0]}}

\* v after the friction of a tick
Slowed(v) == Div(v * FrictionPow(Elapsed), 100000)

\* the velocities the friction and the boundary bounce of a tick can make
\* of v
AfterFriction(v) == {Slowed(v), Div(Abs(Slowed(v)), 2), -Div(Abs(Slowed(v)), 2)}

ShootRefused(k) ==
    \/ ~players[k].isAlive
    \/ now - players[k].lastShot < SHOOT_COOLDOWN

\* the repair event of tank k is refused: the tank is dead or its last
\* repair is less than REPAIR_COOLDOWN old
RepairCooling(k) ==
    \/ ~players[k].isAlive
    \/ /\ k \in DOMAIN lastRepairTime
       /\ now - lastRepairTime[k] < REPAIR_COOLDOWN

(***************************************************************************)
(* C26.  A shoot event of a tank that is dead or still cooling down, and   *)
(* a repair event of a tank that is dead or whose last repair is less      *)
(* than REPAIR_COOLDOWN old, leaves the last-shot time and the health of   *)
(* every tank, the last-repair times, the projectile id counter and the    *)
(* projectiles as they were and sends nothing (no shootSound, no           *)
(* repaired).  The refused shoot changes nothing of its tank but the       *)
(* input buffer (the aim point that came with the event); the refused      *)
(* repair changes no tank at all.                                          *)
(***************************************************************************)
RefusedActionsChangeNothing ==
    [][\A k \in DOMAIN players :
          /\ (last' = [op |-> "shoot", id |-> k] /\ ShootRefused(k)) =>
                /\ DOMAIN players' = DOMAIN players
                /\ \A j \in DOMAIN players :
                      /\ players'[j].lastShot = players[j].lastShot
                      /\ players'[j].hp = players[j].hp
                      /\ players'[j] = [players[j] EXCEPT
                                          !.inputState = players'[j].inputState]
                      /\ j # k => players'[j] = players[j]
                /\ lastRepairTime' = lastRepairTime
                /\ bulletIdCounter' = bulletIdCounter
                /\ bullets' = bullets
                /\ out' = <<>>
          /\ (last' = [op |-> "repair", id |-> k] /\ RepairCooling(k)) =>
                /\ players' = players
                /\ lastRepairTime' = lastRepairTime
                /\ bulletIdCounter' = bulletIdCounter
                /\ bullets' = bullets
                /\ out' = <<>>
      ]_vars

\* the last handler refused the shoot event of an alive tank for the
\* cooldown, with a projectile of that tank in the world, and kept the aim
\* point that came with the event
ShotRefusedAimKept ==
    \E k \in DOMAIN players :
        /\ last = [op |-> "shoot", id |-> k]
        /\ out = <<>>
        /\ players[k].isAlive
        /\ now - players[k].lastShot < SHOOT_COOLDOWN
        /\ players[k].inputState.mouseX # 0
        /\ \E n \in 1..Len(bullets) : bullets[n].owner = k

\* the last handler refused the shoot event of a dead tank
DeadShotRefused ==
    \E k \in DOMAIN players :
        /\ last = [op |-> "shoot", id |-> k]
        /\ out = <<>>
        /\ ~players[k].isAlive

\* the last handler refused the repair event of a dead tank
DeadRepairRefused ==
    \E k \in DOMAIN players :
        /\ last = [op |-> "repair", id |-> k]
        /\ out = <<>>
        /\ ~players[k].isAlive

(***************************************************************************)
(* C27.  In every state between two handlers a tank is alive exactly when  *)
(* its health is above 0: an alive tank has health above 0, a dead tank    *)
(* has health 0.                                                           *)
(***************************************************************************)
AliveIffHealthy ==
    \A k \in DOMAIN players :
        /\ players[k].isAlive => players[k].hp > 0
        /\ ~players[k].isAlive => players[k].hp = 0
        /\ players[k].isAlive <=> players[k].hp > 0

\* a tick has killed a tank that had less than BULLET_DAMAGE left and has
\* left another tank alive
KilledBelowDamage ==
    /\ last.op = "tick"
    /\ \E k, j \in DOMAIN players :
          /\ mid[k].isAlive
          /\ mid[k].hp < BULLET_DAMAGE
          /\ HitsOn(k) # {}
          /\ ~players[k].isAlive
          /\ players[k].hp = 0
          /\ players[j].isAlive
          /\ players[j].hp > 0

\* a tick has respawned a tank and struck it: it is alive with part of its
\* health
RespawnedAndStruck ==
    /\ last.op = "tick"
    /\ \E k \in DOMAIN players :
          /\ Emitted("respawned", k)
          /\ HitsOn(k) # {}
          /\ players[k].isAlive
          /\ players[k].hp = MAX_HEALTH - BULLET_DAMAGE

\* the number of events of this kind the last handler sent to k
Notes(kind, k) ==
    Cardinality({i \in 1..Len(out) : out[i].ev = kind /\ out[i].to = k})

\* the number of "playerDied" events of the last handler about k
DeathNotes(k) ==
    Cardinality({i \in 1..Len(out) : out[i].ev = "playerDied" /\ out[i].playerId = k})

\* the number of "kill" events of the last handler that name k the victim
KillNotesAbout(k) ==
    Cardinality({i \in 1..Len(out) : out[i].ev = "kill" /\ out[i].victim = k})

\* the last of the "hit" events to k
LastHitOn(k) == CHOOSE i \in HitsOn(k) : \A j \in HitsOn(k) : j <= i

StruckTwice ==
    /\ last.op = "tick"
    /\ \E k \in DOMAIN players :
          /\ Cardinality(HitsOn(k)) = 2
          /\ players[k].isAlive

====
